---------------------------- MODULE Spec2Model ----------------------------
(***************************************************************************)
(* Model of the two snippets callable.py and new_type.py.                  *)
(*                                                                         *)
(* Two things happen to each file: a static check reads its annotations    *)
(* and accepts or rejects each call site, and the interpreter executes its *)
(* top-level statements in order.  The static part is modelled by the      *)
(* assignability rules that the annotations of the source invoke (nominal  *)
(* subtyping for classes and NewType, callable assignability for a         *)
(* Protocol with __call__), applied to call sites drawn from bounded sets  *)
(* (SpecRules).  The runtime part is modelled statement by statement       *)
(* (Spec, FairSpec).                                                       *)
(***************************************************************************)
EXTENDS Integers, Sequences, FiniteSets, TLC

VARIABLES
    pcN,        \* new_type.py: index of the next top-level statement
    globalsN,   \* new_type.py: module namespace
    stdoutN,    \* new_type.py: lines written by print
    stderrN,    \* new_type.py: lines written by reveal_type
    faultN,     \* new_type.py: "none" or the exception that ended the run
    ranN,       \* new_type.py: source lines whose statement completed
    pcC,        \* callable.py: index of the next top-level statement
    definedC,   \* callable.py: names bound in the module namespace
    faultC,     \* callable.py: "none" or the exception that ended the run
    ranC,       \* callable.py: source lines whose statement completed
    site,       \* static check: which kind of call site is being checked
    cand,       \* static check: signature of the callable offered as aggregator
    expr,       \* static check: the argument expression
    param,      \* static check: declared type of the parameter receiving expr
    verdict,    \* static check: "pending", "accept" or "reject"
    revealed,   \* static check: static type reported for expr
    value       \* runtime value of expr once evaluated

vars == <<pcN, globalsN, stdoutN, stderrN, faultN, ranN,
          pcC, definedC, faultC, ranC,
          site, cand, expr, param, verdict, revealed, value>>

runN == <<pcN, globalsN, stdoutN, stderrN, faultN, ranN>>
runC == <<pcC, definedC, faultC, ranC>>
chk  == <<site, cand, expr, param, verdict, revealed, value>>

(***************************************************************************)
(* Bounds.                                                                 *)
(***************************************************************************)
MaxInt == 2
IntVals == (0 - MaxInt)..MaxInt

(***************************************************************************)
(* Static types.  A type is a set of class names (a union of its members). *)
(***************************************************************************)
T_int      == {"int"}
T_UserId   == {"UserId"}
T_bool     == {"bool"}
T_None     == {"None"}
T_str      == {"str"}
T_object   == {"object"}
T_int_None == {"int", "None"}

Types == {T_int, T_UserId, T_bool, T_None, T_str, T_object, T_int_None}

\* Mutant: UserId declared as a plain alias of int.
UserIdAsAlias == [name |-> "UserId", base |-> "int", alias |-> TRUE]

\* Mutant: UserId declared as a wrapper class unrelated to int.
UserIdUnrelated == [name |-> "UserId", base |-> "object", alias |-> FALSE]

\* UserId = NewType('UserId', int): a distinct class whose base is int.
UserIdDecl == [name |-> "UserId", base |-> "int", alias |-> FALSE]

\* The direct base class of a class ("object" is the root).
Base(c) ==
    CASE c = UserIdDecl.name -> UserIdDecl.base
      [] c = "bool"          -> "int"
      [] OTHER               -> "object"

\* Nominal subclassing: walk up the base classes of c looking for d.
RECURSIVE IsSubclass(_, _)
IsSubclass(c, d) ==
    \/ c = d
    \/ d = "object"
    \/ UserIdDecl.alias /\ {c, d} = {UserIdDecl.name, UserIdDecl.base}
    \/ c # "object" /\ IsSubclass(Base(c), d)

\* Assignability of an argument of type s to a parameter of type t: every
\* member of s is a subclass of some member of t.
Assignable(s, t) == \A c \in s : \E d \in t : IsSubclass(c, d)


(***************************************************************************)
(* callable.py: signatures.  Every callable of the file that is offered as *)
(* an aggregator has the shape f( *values: T, <name>: U [= default]) -> R. *)
(* A return type is list[of] (gen = "list") or the plain type of.          *)
(***************************************************************************)
ListOf(t)  == [gen |-> "list",  of |-> t]
PlainOf(t) == [gen |-> "plain", of |-> t]

\* Mutant: the protocol declared without a keyword default.
AggregatorCallRequiredKw ==
    [var |-> T_int,
     kw  |-> [name |-> "max_results", type |-> T_int_None, default |-> FALSE],
     ret |-> ListOf(T_int)]

\* Aggregator.__call__(self, *values: int, max_results: int | None = None) -> list[int]
AggregatorCall ==
    [var |-> T_int,
     kw  |-> [name |-> "max_results", type |-> T_int_None, default |-> TRUE],
     ret |-> ListOf(T_int)]

\* def good_cb( *values: int, max_results: int | None = None) -> list[int]
good_cb ==
    [var |-> T_int,
     kw  |-> [name |-> "max_results", type |-> T_int_None, default |-> TRUE],
     ret |-> ListOf(T_int)]

\* def bad_cb( *values: int, max_res: int | None) -> list[int]
bad_cb ==
    [var |-> T_int,
     kw  |-> [name |-> "max_res", type |-> T_int_None, default |-> FALSE],
     ret |-> ListOf(T_int)]

KwNames  == {"max_results", "max_res", "limit"}
RetTypes == {ListOf(T_int), ListOf(T_bool), ListOf(T_str), PlainOf(T_None)}

Candidates ==
    [var : Types,
     kw  : [name : KwNames, type : Types, default : BOOLEAN],
     ret : RetTypes]

\* Mutant: parameter types compared covariantly (the direction of returns).
ParamAcceptsCovariant(declared, offered) == Assignable(offered, declared)

\* A parameter of the candidate typed `offered` takes every argument the
\* protocol's callers may pass for a parameter typed `declared`.
ParamAccepts(declared, offered) == Assignable(declared, offered)

\* Return types: list is invariant in its element type, a plain type is
\* covariant.
RetAssignable(r, s) ==
    /\ r.gen = s.gen
    /\ IF r.gen = "list"
         THEN Assignable(r.of, s.of) /\ Assignable(s.of, r.of)
         ELSE Assignable(r.of, s.of)

\* Mutant: keyword parameters matched by position, their names erased.
KeywordMatchesByPosition(f, p) ==
    /\ ParamAccepts(p.kw.type, f.kw.type)
    /\ (p.kw.default => f.kw.default)

\* The keyword the protocol's callers may pass (by name, possibly omitted)
\* is taken by the candidate: same name, a type that accepts it, and
\* optional wherever the protocol makes it optional.
KeywordMatches(f, p) ==
    /\ f.kw.name = p.kw.name
    /\ ParamAccepts(p.kw.type, f.kw.type)
    /\ (p.kw.default => f.kw.default)

\* A function with signature f may be passed where the callback protocol
\* with __call__ signature p is required.
CallableAssignable(f, p) ==
    /\ ParamAccepts(p.var, f.var)
    /\ KeywordMatches(f, p)
    /\ RetAssignable(f.ret, p.ret)

\* process_numbers(data: Iterable[int], aggregator: Aggregator): the check
\* of the second argument of a call.
CheckAggregatorArg(f) ==
    IF CallableAssignable(f, AggregatorCall) THEN "accept" ELSE "reject"

(***************************************************************************)
(* new_type.py: expressions.  An expression is a literal, UserId(e) or     *)
(* e1 + e2; args holds the operands.                                       *)
(***************************************************************************)
Lit(v)    == [op |-> "lit",  val |-> v, args |-> <<>>]
Wrap(e)   == [op |-> "wrap", val |-> 0, args |-> <<e>>]
Add(a, b) == [op |-> "add",  val |-> 0, args |-> <<a, b>>]

Atoms    == {Lit(v) : v \in IntVals}
Operands == Atoms \cup {Wrap(e) : e \in Atoms}
Exprs    == Operands \cup {Add(a, b) : a \in Operands, b \in Operands}

\* Mutant: addition typed as returning the type of its receiver.
IntAddSelf(self) == [other |-> T_int, ret |-> self]

\* int.__add__(self, other: int) -> int, which UserId inherits unchanged.
IntAdd(self) == [other |-> T_int, ret |-> T_int]

\* def get_user_name(user_id: UserId) -> str
get_user_name_sig == [arg |-> T_UserId, ret |-> T_str]

\* The static type of an expression, and whether the expression itself
\* checks.
RECURSIVE TypeOf(_)
TypeOf(e) ==
    CASE e.op = "lit"  -> [ok |-> TRUE, type |-> T_int]
      [] e.op = "wrap" ->
           LET a == TypeOf(e.args[1])
           IN  [ok   |-> a.ok /\ Assignable(a.type, {UserIdDecl.base}),
                type |-> IF UserIdDecl.alias THEN {UserIdDecl.base}
                                             ELSE {UserIdDecl.name}]
      [] e.op = "add"  ->
           LET l == TypeOf(e.args[1])
               r == TypeOf(e.args[2])
               m == IntAdd(l.type)
           IN  [ok   |-> /\ l.ok /\ r.ok
                         /\ Assignable(l.type, T_int)
                         /\ Assignable(r.type, m.other),
                type |-> m.ret]

\* What reveal_type(e) shows under the check.
T_error == {"<error>"}
Reveal(e) == IF TypeOf(e).ok THEN TypeOf(e).type ELSE T_error

\* The check of one argument expression against a parameter type.
CheckArg(e, t) ==
    IF TypeOf(e).ok /\ Assignable(TypeOf(e).type, t) THEN "accept" ELSE "reject"

(***************************************************************************)
(* Runtime values: cls is the runtime class of the object.                 *)
(***************************************************************************)
Unbound  == [cls |-> "unbound", val |-> 0]
IntObj(v) == [cls |-> "int", val |-> v]

\* Mutant: the constructor boxes its argument in an instance of UserId.
NewTypeCallBoxing(x) == [cls |-> "UserId", val |-> x.val]

\* Calling the object NewType returns gives back the argument itself.
NewTypeCall(x) == x

RECURSIVE Eval(_)
Eval(e) ==
    CASE e.op = "lit"  -> IntObj(e.val)
      [] e.op = "wrap" -> NewTypeCall(Eval(e.args[1]))
      [] e.op = "add"  -> IntObj(Eval(e.args[1]).val + Eval(e.args[2]).val)

(***************************************************************************)
(* new_type.py at runtime.                                                 *)
(***************************************************************************)
Ok(v)      == [fault |-> "none", ret |-> v]
Raise(exc) == [fault |-> exc, ret |-> "None"]

\* Mutant: the function enforces its annotation when called.
get_user_name_enforcing(user_id) ==
    IF user_id.cls = "UserId" THEN Ok("John Doe") ELSE Raise("TypeError")

\* def get_user_name(user_id: UserId) -> str: return "John Doe"
get_user_name(user_id) == Ok("John Doe")

\* typing.reveal_type at runtime: reports the runtime class on stderr.
reveal_type(x) == "Runtime type is '" \o x.cls \o "'"

\* Mutant: the flagged statement of line 15 left out of the flow.
NewTypeStmtsUnflagged == <<3, 6, 9, 13, 14, 17, 18>>

\* The source lines of the top-level statements of new_type.py, in order.
NewTypeStmts == <<3, 6, 9, 13, 14, 15, 17, 18>>

\* What executing the statement at `line` does to the namespace and the
\* streams, or the exception it raises.
ExecN(line) ==
    LET g      == globalsN
        same   == [fault |-> "none", globals |-> g,
                   stdout |-> stdoutN, stderr |-> stderrN]
        fail(e) == [same EXCEPT !.fault = e]
        bind(ns) == [same EXCEPT !.globals.names = @ \cup ns]
        printed(r) == IF r.fault = "none"
                        THEN [same EXCEPT !.stdout = Append(@, r.ret)]
                        ELSE fail(r.fault)
    IN  CASE line = 3  -> bind({"NewType", "reveal_type"})
          [] line = 6  -> IF "NewType" \in g.names
                            THEN bind({"UserId"}) ELSE fail("NameError")
          [] line = 9  -> IF "UserId" \in g.names
                            THEN bind({"get_user_name"}) ELSE fail("NameError")
          [] line = 13 -> IF "UserId" \in g.names
                            THEN [same EXCEPT
                                    !.globals.names = @ \cup {"user_id"},
                                    !.globals.user_id = Eval(Wrap(Lit(1)))]
                            ELSE fail("NameError")
          [] line = 14 -> IF {"get_user_name", "user_id"} \subseteq g.names
                            THEN printed(get_user_name(g.user_id))
                            ELSE fail("NameError")
          [] line = 15 -> IF "get_user_name" \in g.names
                            THEN printed(get_user_name(Eval(Lit(1))))
                            ELSE fail("NameError")
          [] line = 17 -> IF "UserId" \in g.names
                            THEN [same EXCEPT
                                    !.globals.names = @ \cup {"x"},
                                    !.globals.x =
                                        Eval(Add(Wrap(Lit(1)), Wrap(Lit(2))))]
                            ELSE fail("NameError")
          [] line = 18 -> IF {"reveal_type", "x"} \subseteq g.names
                            THEN [same EXCEPT
                                    !.stderr = Append(@, reveal_type(g.x))]
                            ELSE fail("NameError")

DoneN == pcN = Len(NewTypeStmts) + 1

AtN(line) ==
    /\ faultN = "none"
    /\ pcN \in 1..Len(NewTypeStmts)
    /\ NewTypeStmts[pcN] = line

\* One top-level statement of new_type.py: it completes and control moves
\* to the next statement, or it raises and the run ends there.
CommitN(line) ==
    /\ LET r == ExecN(line)
       IN  IF r.fault = "none"
             THEN /\ globalsN' = r.globals
                  /\ stdoutN' = r.stdout
                  /\ stderrN' = r.stderr
                  /\ pcN' = pcN + 1
                  /\ ranN' = ranN \cup {line}
                  /\ faultN' = "none"
             ELSE /\ faultN' = r.fault
                  /\ UNCHANGED <<globalsN, stdoutN, stderrN, pcN, ranN>>
    /\ UNCHANGED <<runC, chk>>

N_Import ==
    /\ AtN(3)
    /\ CommitN(3)

N_DefUserId ==
    /\ AtN(6)
    /\ CommitN(6)

N_DefGetUserName ==
    /\ AtN(9)
    /\ CommitN(9)

N_AssignUserId ==
    /\ AtN(13)
    /\ CommitN(13)

N_PrintWrapped ==
    /\ AtN(14)
    /\ CommitN(14)

N_PrintPlain ==
    /\ AtN(15)
    /\ CommitN(15)

N_AssignX ==
    /\ AtN(17)
    /\ CommitN(17)

N_RevealType ==
    /\ AtN(18)
    /\ CommitN(18)

StepNewType ==
    \/ N_Import
    \/ N_DefUserId
    \/ N_DefGetUserName
    \/ N_AssignUserId
    \/ N_PrintWrapped
    \/ N_PrintPlain
    \/ N_AssignX
    \/ N_RevealType

(***************************************************************************)
(* callable.py at runtime.  A function object is known by its name; its    *)
(* parameters are those of its signature.                                  *)
(***************************************************************************)
RuntimeSig(fn) == IF fn = "good_cb" THEN good_cb ELSE bad_cb

\* Calling fn(*data, max_results=None): the interpreter binds the keyword
\* by name and raises when fn has no such parameter.
CallWithMaxResults(fn) ==
    IF RuntimeSig(fn).kw.name = "max_results" THEN Ok("None") ELSE Raise("TypeError")

\* Mutant: the body uses its aggregator.
process_numbers_invoking(data, aggregator) == CallWithMaxResults(aggregator)

\* def process_numbers(data, aggregator): ...   (the body is the constant
\* Ellipsis: the function returns None and never calls aggregator)
process_numbers(data, aggregator) == Ok("None")

\* def do_thing(on_success): ...
do_thing(on_success) == Ok("None")

\* Mutant: the flagged statement of line 38 left out of the flow.
CallableStmtsUnflagged == <<1, 2, 4, 7, 10, 13, 23, 27, 31, 34, 37>>

\* The source lines of the top-level statements of callable.py, in order.
CallableStmts == <<1, 2, 4, 7, 10, 13, 23, 27, 31, 34, 37, 38>>

\* What executing the statement at `line` does: the names it binds, or the
\* exception it raises.  A def evaluates its annotations, so the names the
\* annotations use must be bound.
ExecC(line) ==
    LET d == definedC
        bind(needs, ns) == IF needs \subseteq d
                             THEN [fault |-> "none", defined |-> d \cup ns]
                             ELSE [fault |-> "NameError", defined |-> d]
        call(needs, r) == IF needs \subseteq d
                            THEN [fault |-> r.fault, defined |-> d]
                            ELSE [fault |-> "NameError", defined |-> d]
    IN  CASE line = 1  -> bind({}, {"Callable"})
          [] line = 2  -> bind({}, {"Iterable"})
          [] line = 4  -> bind({}, {"Protocol"})
          [] line = 7  -> bind({"Callable"}, {"do_thing"})
          [] line = 10 -> bind({}, {"_success"})
          [] line = 13 -> call({"do_thing", "_success"}, do_thing("_success"))
          [] line = 23 -> bind({"Protocol"}, {"Aggregator"})
          [] line = 27 -> bind({"Iterable", "Aggregator"}, {"process_numbers"})
          [] line = 31 -> bind({}, {"good_cb"})
          [] line = 34 -> bind({}, {"bad_cb"})
          [] line = 37 -> call({"process_numbers", "good_cb"},
                               process_numbers(<<>>, "good_cb"))
          [] line = 38 -> call({"process_numbers", "bad_cb"},
                               process_numbers(<<>>, "bad_cb"))

DoneC == pcC = Len(CallableStmts) + 1

AtC(line) ==
    /\ faultC = "none"
    /\ pcC \in 1..Len(CallableStmts)
    /\ CallableStmts[pcC] = line

CommitC(line) ==
    /\ LET r == ExecC(line)
       IN  IF r.fault = "none"
             THEN /\ definedC' = r.defined
                  /\ pcC' = pcC + 1
                  /\ ranC' = ranC \cup {line}
                  /\ faultC' = "none"
             ELSE /\ faultC' = r.fault
                  /\ UNCHANGED <<definedC, pcC, ranC>>
    /\ UNCHANGED <<runN, chk>>

C_ImportCallable ==
    /\ AtC(1)
    /\ CommitC(1)

C_ImportIterable ==
    /\ AtC(2)
    /\ CommitC(2)

C_ImportProtocol ==
    /\ AtC(4)
    /\ CommitC(4)

C_DefDoThing ==
    /\ AtC(7)
    /\ CommitC(7)

C_DefSuccess ==
    /\ AtC(10)
    /\ CommitC(10)

C_CallDoThing ==
    /\ AtC(13)
    /\ CommitC(13)

C_ClassAggregator ==
    /\ AtC(23)
    /\ CommitC(23)

C_DefProcessNumbers ==
    /\ AtC(27)
    /\ CommitC(27)

C_DefGoodCb ==
    /\ AtC(31)
    /\ CommitC(31)

C_DefBadCb ==
    /\ AtC(34)
    /\ CommitC(34)

C_CallWithGoodCb ==
    /\ AtC(37)
    /\ CommitC(37)

C_CallWithBadCb ==
    /\ AtC(38)
    /\ CommitC(38)

StepCallable ==
    \/ C_ImportCallable
    \/ C_ImportIterable
    \/ C_ImportProtocol
    \/ C_DefDoThing
    \/ C_DefSuccess
    \/ C_CallDoThing
    \/ C_ClassAggregator
    \/ C_DefProcessNumbers
    \/ C_DefGoodCb
    \/ C_DefBadCb
    \/ C_CallWithGoodCb
    \/ C_CallWithBadCb

(***************************************************************************)
(* The runs of the two files.  The files are independent programs, so      *)
(* their statements interleave freely.                                     *)
(***************************************************************************)
InitRun ==
    /\ pcN = 1
    /\ globalsN = [names |-> {}, user_id |-> Unbound, x |-> Unbound]
    /\ stdoutN = <<>>
    /\ stderrN = <<>>
    /\ faultN = "none"
    /\ ranN = {}
    /\ pcC = 1
    /\ definedC = {}
    /\ faultC = "none"
    /\ ranC = {}

IdleCheck ==
    /\ site = "none"
    /\ cand = AggregatorCall
    /\ expr = Lit(0)
    /\ param = T_int
    /\ verdict = "pending"
    /\ revealed = {}
    /\ value = Unbound

Init == InitRun /\ IdleCheck

Next == StepNewType \/ StepCallable

Spec == Init /\ [][Next]_vars

\* The interpreter executes the next statement of each file as long as
\* there is one.
FairSpec == Spec /\ WF_vars(StepNewType) /\ WF_vars(StepCallable)

(***************************************************************************)
(* The rules applied to call sites drawn from bounded sets: a candidate    *)
(* callable offered to process_numbers, or an argument expression passed   *)
(* to a parameter typed int or UserId.                                     *)
(***************************************************************************)
ParamTypes == {T_int, get_user_name_sig.arg}

InitRules ==
    /\ InitRun
    /\ verdict = "pending"
    /\ revealed = {}
    /\ value = Unbound
    /\ \/ /\ site = "callable"
          /\ cand \in Candidates
          /\ expr = Lit(0)
          /\ param = T_int
       \/ /\ site = "arg"
          /\ cand = AggregatorCall
          /\ expr \in Exprs
          /\ param \in ParamTypes

\* The check of a call process_numbers(data, cand).
CheckProcessNumbersCall ==
    /\ site = "callable"
    /\ verdict = "pending"
    /\ verdict' = CheckAggregatorArg(cand)
    /\ UNCHANGED <<runN, runC, site, cand, expr, param, revealed, value>>

\* The check of expr passed to a parameter of type param.
CheckCallArgument ==
    /\ site = "arg"
    /\ verdict = "pending"
    /\ verdict' = CheckArg(expr, param)
    /\ UNCHANGED <<runN, runC, site, cand, expr, param, revealed, value>>

\* reveal_type(expr) under the check.
RevealType ==
    /\ site = "arg"
    /\ revealed = {}
    /\ revealed' = Reveal(expr)
    /\ UNCHANGED <<runN, runC, site, cand, expr, param, verdict, value>>

\* expr evaluated by the interpreter.
Evaluate ==
    /\ site = "arg"
    /\ value = Unbound
    /\ value' = Eval(expr)
    /\ UNCHANGED <<runN, runC, site, cand, expr, param, verdict, revealed>>

NextRules ==
    \/ CheckProcessNumbersCall
    \/ CheckCallArgument
    \/ RevealType
    \/ Evaluate

SpecRules == InitRules /\ [][NextRules]_vars

(***************************************************************************)
(* Properties of the static check (SpecRules).                             *)
(***************************************************************************)
Checked(kind) == site = kind /\ verdict # "pending"

\* C1: a candidate offered as Aggregator whose named-only parameter has
\* the type of Aggregator's (int | None) but another name than max_results
\* is rejected: the match is by name.
C1_NameSensitive ==
    (/\ Checked("callable")
     /\ cand.kw.type = T_int_None
     /\ cand.kw.name # "max_results")
        => verdict = "reject"

\* C1 witness: bad_cb (max_res: int | None) was checked and rejected.
C1_BadCbRejected ==
    /\ Checked("callable")
    /\ cand = bad_cb
    /\ verdict = "reject"

\* C2: for every int b, the argument b passed to get_user_name (parameter
\* typed UserId) is rejected and the argument UserId(b) is accepted.
C2_BaseRejectedWrappedAccepted ==
    (Checked("arg") /\ param = T_UserId)
        => \A b \in IntVals :
             /\ expr = Lit(b) => verdict = "reject"
             /\ expr = Wrap(Lit(b)) => verdict = "accept"

\* C2 witness: get_user_name(1) was checked and rejected.
C2_PlainIntRejected ==
    /\ Checked("arg")
    /\ param = T_UserId
    /\ expr = Lit(1)
    /\ verdict = "reject"

\* C3: for UserId operands a and b, a + b checks and its static type is
\* int, not UserId.
C3_AddYieldsBase ==
    (/\ site = "arg"
     /\ revealed # {}
     /\ expr.op = "add"
     /\ expr.args[1].op = "wrap"
     /\ expr.args[2].op = "wrap")
        => revealed = T_int

\* C3 witness: UserId(1) + UserId(2) was revealed as int.
C3_SumRevealedInt ==
    /\ site = "arg"
    /\ expr = Add(Wrap(Lit(1)), Wrap(Lit(2)))
    /\ revealed = T_int

\* C4: an argument of static type UserId is accepted by a parameter typed
\* int and by a parameter typed UserId.
C4_UpwardAssignable ==
    (/\ Checked("arg")
     /\ expr.op = "wrap"
     /\ param \in {T_int, T_UserId})
        => verdict = "accept"

\* C4 witness: UserId(1) was passed to a parameter typed int and accepted.
C4_WrappedToInt ==
    /\ Checked("arg")
    /\ expr = Wrap(Lit(1))
    /\ param = T_int
    /\ verdict = "accept"

\* C5 as stated: a candidate is accepted exactly when its variadic
\* parameter is typed compatibly with int and it has a named-only parameter
\* called max_results typed compatibly with int | None.
C5_AsStated ==
    Checked("callable")
        => (verdict = "accept" <=>
              /\ cand.var \in {T_int, T_int_None, T_object}
              /\ cand.kw.name = "max_results"
              /\ cand.kw.type \in {T_int_None, T_object})

\* C5 amended: a candidate f( *values: T, <name>: U [= default]) -> R is
\* accepted exactly when T is int or a supertype of it, the name is
\* max_results, U is int | None or a supertype of it, the parameter has a
\* default as Aggregator's has, and R is list[int]; good_cb is accepted.
C5_Amended ==
    Checked("callable")
        => /\ verdict = "accept" <=>
                /\ cand.var \in {T_int, T_int_None, T_object}
                /\ cand.kw.name = "max_results"
                /\ cand.kw.type \in {T_int_None, T_object}
                /\ cand.kw.default
                /\ cand.ret = ListOf(T_int)
           /\ cand = good_cb => verdict = "accept"

\* C5 witness: good_cb was checked and accepted.
C5_GoodCbAccepted ==
    /\ Checked("callable")
    /\ cand = good_cb
    /\ verdict = "accept"

\* C6: at runtime UserId(v) is v itself: the same value, of class int.
C6_WrapIsIdentity ==
    (/\ site = "arg"
     /\ value # Unbound
     /\ expr.op = "wrap")
        => value = [cls |-> "int", val |-> expr.args[1].val]

\* C6 witness: UserId(1) was evaluated to the int 1.
C6_WrappedOne ==
    /\ site = "arg"
    /\ expr = Wrap(Lit(1))
    /\ value = [cls |-> "int", val |-> 1]

\* C9: parameter types are contravariant.  A candidate that differs from
\* Aggregator only in the type of its variadic parameter is accepted when
\* that type is int or a supertype and rejected when it is a strict subtype
\* of int; likewise for the type of max_results against int | None.
C9_Contravariant ==
    Checked("callable")
        => /\ cand = [AggregatorCall EXCEPT !.var = cand.var]
                => /\ cand.var \in {T_int, T_int_None, T_object}
                        => verdict = "accept"
                   /\ cand.var \in {T_bool, T_UserId}
                        => verdict = "reject"
           /\ cand = [AggregatorCall EXCEPT !.kw.type = cand.kw.type]
                => /\ cand.kw.type \in {T_int_None, T_object}
                        => verdict = "accept"
                   /\ cand.kw.type \in {T_int, T_None, T_bool, T_UserId}
                        => verdict = "reject"

\* C9 witness: a candidate with *values: object was accepted.
C9_WiderAccepted ==
    /\ Checked("callable")
    /\ cand = [AggregatorCall EXCEPT !.var = T_object]
    /\ verdict = "accept"

(***************************************************************************)
(* Properties of the runs (Spec, FairSpec).                                *)
(***************************************************************************)
FaultAtN(line) == faultN # "none" /\ NewTypeStmts[pcN] = line
FaultAtC(line) == faultC # "none" /\ CallableStmts[pcC] = line

\* C7: the statements that break a typing rule, get_user_name(1) on line
\* 15 of new_type.py and process_numbers([], bad_cb) on line 38 of
\* callable.py, never raise.
C7_NoRuntimeFault ==
    /\ ~FaultAtN(15)
    /\ ~FaultAtC(38)

\* C7 witness: both statements have completed and neither run has raised.
C7_BothCompleted ==
    /\ 15 \in ranN
    /\ 38 \in ranC
    /\ faultN = "none"
    /\ faultC = "none"

\* C8 as stated: the flagged lines are never executed.
C8_AsStated ==
    /\ 15 \notin ranN
    /\ 38 \notin ranC

\* C8 amended: the flagged lines are executed: a run of new_type.py that
\* reaches its end has executed line 15, and a run of callable.py that
\* reaches its end has executed line 38.
C8_Amended ==
    /\ DoneN => 15 \in ranN
    /\ DoneC => 38 \in ranC

\* C8 witness: both runs are at their end with the flagged lines executed.
C8_BothExecuted ==
    /\ DoneN
    /\ DoneC
    /\ 15 \in ranN
    /\ 38 \in ranC

\* C10: the run of new_type.py never raises, has printed "John Doe" once
\* when it reaches line 15 and twice when it reaches reveal_type(x) on
\* line 18, and reaches its end.
C10_PrintsTwiceAndEnds ==
    /\ [](faultN = "none")
    /\ [](AtN(15) => stdoutN = <<"John Doe">>)
    /\ [](AtN(18) => stdoutN = <<"John Doe", "John Doe">>)
    /\ <>DoneN

\* C10 witness: the run is at line 18 with two lines printed.
C10_AtRevealType ==
    /\ AtN(18)
    /\ Len(stdoutN) = 2

=============================================================================
